---- MODULE Spec2Model ----
(***************************************************************************)
(* Lazy pull-based streams (src/src/streams.h).                            *)
(*                                                                         *)
(* An iterator is a record tagged by `kind`; a transform iterator holds    *)
(* its upstream iterator by value in a field, as the C++ classes do.       *)
(* Every member function is an operator from the object's state to a       *)
(* record holding the object's state after the call (`it`), what the call  *)
(* returned, whether it left by an exception (`exc`) or ran into           *)
(* undefined behaviour (`ub`), and the log `calls` of the user functions   *)
(* it invoked and the TypedStorage functions it called, in order.          *)
(***************************************************************************)
EXTENDS Integers, Sequences, FiniteSets, TLC

\* ---------------------------------------------------------------- bounds
MaxLen == 3
MaxStages == 2
MaxLimit == 2
MaxMisuse == 1

\* Element values of the source containers.
Elem == {1, 2, 3}

\* ------------------------------------------------------- user functions
\* The library is generic in the functions it is given; these are the
\* sample functions the model passes in.
MapLams == {"times10"}
FilterLams == {"odd"}
FlatMapLams == {"rep", "none"}
TapLams == {"log"}
LimitSizes == 0..MaxLimit

\* transform x -> x * 10
Apply(lam, x) == IF lam = "times10" THEN x * 10 ELSE x

\* predicates
Test(lam, x) ==
  CASE lam = "odd" -> x % 2 = 1
    [] lam = "gt1" -> x > 1
    [] lam = "gt2" -> x > 2
    [] lam = "lt3" -> x < 3
    [] OTHER -> FALSE

\* container a "rep" flat-map function streams over: empty for multiples
\* of 3, one element for 3k+1, two elements for 3k+2
InnerData(x) ==
  CASE x % 3 = 0 -> << >>
    [] x % 3 = 1 -> <<x>>
    [] OTHER -> <<x, x + 1>>

\* call record of a user function
Call(at, lam, x) == [at |-> at, fn |-> lam, arg |-> x]

\* ------------------------------------------------------------ iterators
\* StreamIterator(b, e): cursors are indices into the container `data`
StreamIterator(data) ==
  [kind |-> "Range", data |-> data, current |-> 1, end |-> Len(data) + 1]

EmptyIterator == [kind |-> "Empty"]

\* content of a TypedStorage slot on which construct() has not run
Uninit == [kind |-> "Uninit"]
NoValue == 0

\* results of member functions
HasNextResult(it, ret) == [it |-> it, ret |-> ret, calls |-> << >>]
NextResult(it, val, exc, ub, calls) ==
  [it |-> it, val |-> val, exc |-> exc, ub |-> ub, calls |-> calls]
MoveResult(it, exc, ub, calls) ==
  [it |-> it, exc |-> exc, ub |-> ub, calls |-> calls]

\* In the definitions below the result of a call the function makes is the
\* parameter of a local operator that holds the rest of the function:
\* Asked(h) is what follows it.hasNext(), Got(r) what follows it.next().

\* the result of a call that is made once: the element of the set {result}
Once(S) == CHOOSE v \in S : TRUE

\* `self`, whose upstream member `it` answered hasNext() with `h`
Delegated(self, h) == [h EXCEPT !.it = [self EXCEPT !.it = h.it]]

\* the result `rest` of the remainder of a loop, after an iteration that
\* invoked `calls`
After(calls, ub, rest) ==
  [rest EXCEPT !.ub = ub \/ @, !.calls = calls \o @]

RECURSIVE hasNext(_), next(_, _), FilterLoop(_, _), FlatMapLoop(_, _)

\* StreamIterator::hasNext
RangeHasNext(self) == HasNextResult(self, self.current # self.end)

\* StreamIterator::next; reading *current at or past end is undefined: the
\* value read is `junk`
RangeNext(self, junk) ==
  IF self.current >= 1 /\ self.current < self.end
  THEN NextResult([self EXCEPT !.current = @ + 1], self.data[self.current],
                  FALSE, FALSE, << >>)
  ELSE NextResult([self EXCEPT !.current = @ + 1], junk, FALSE, TRUE, << >>)

\* EmptyIterator
EmptyHasNext(self) == HasNextResult(self, FALSE)
EmptyNext(self, junk) == NextResult(self, NoValue, TRUE, FALSE, << >>)

\* MapIterator
MapIterator(i, l) == [kind |-> "Map", it |-> i, lambda |-> l]

MapHasNext(self) == Once({Delegated(self, h) : h \in {hasNext(self.it)}})

\* MapIterator::next as it would be passing the upstream element through
MapNextPassThrough(self, junk) ==
  LET Got(r) ==
        NextResult([self EXCEPT !.it = r.it], r.val, r.exc, r.ub, r.calls)
  IN  Once({Got(r) : r \in {next(self.it, junk)}})

MapNext(self, junk) ==
  LET Got(r) ==
        IF r.exc
        THEN NextResult([self EXCEPT !.it = r.it], NoValue, TRUE, r.ub,
                        r.calls)
        ELSE NextResult([self EXCEPT !.it = r.it], Apply(self.lambda, r.val),
                        FALSE, r.ub,
                        Append(r.calls, Call("Map", self.lambda, r.val)))
  IN  Once({Got(r) : r \in {next(self.it, junk)}})

\* TapIterator
TapIterator(i, l) == [kind |-> "Tap", it |-> i, lambda |-> l]

TapHasNext(self) == Once({Delegated(self, h) : h \in {hasNext(self.it)}})

\* TapIterator::next as it would be without the call of lambda
TapNextSilent(self, junk) ==
  LET Got(r) ==
        NextResult([self EXCEPT !.it = r.it], r.val, r.exc, r.ub, r.calls)
  IN  Once({Got(r) : r \in {next(self.it, junk)}})

TapNext(self, junk) ==
  LET Got(r) ==
        IF r.exc
        THEN NextResult([self EXCEPT !.it = r.it], NoValue, TRUE, r.ub,
                        r.calls)
        ELSE NextResult([self EXCEPT !.it = r.it], r.val, FALSE, r.ub,
                        Append(r.calls, Call("Tap", self.lambda, r.val)))
  IN  Once({Got(r) : r \in {next(self.it, junk)}})

\* LimitIterator
LimitIterator(i, s) == [kind |-> "Limit", it |-> i, size |-> s, idx |-> 0]

\* LimitIterator::hasNext as it would be with idx <= size
LimitHasNextOffByOne(self) ==
  IF self.idx <= self.size
  THEN Once({Delegated(self, h) : h \in {hasNext(self.it)}})
  ELSE HasNextResult(self, FALSE)

\* LimitIterator::hasNext as it would be counting the queries: idx++ < size
LimitHasNextCounting(self) ==
  IF self.idx < self.size
  THEN Once({Delegated([self EXCEPT !.idx = @ + 1], h) :
               h \in {hasNext(self.it)}})
  ELSE HasNextResult([self EXCEPT !.idx = @ + 1], FALSE)

\* LimitIterator::hasNext as it would be without `&& it.hasNext()`
LimitHasNextIgnoresUpstream(self) == HasNextResult(self, self.idx < self.size)

\* idx < size && it.hasNext(): the upstream is asked only when idx < size
LimitHasNext(self) ==
  IF self.idx < self.size
  THEN Once({Delegated(self, h) : h \in {hasNext(self.it)}})
  ELSE HasNextResult(self, FALSE)

\* LimitIterator::next as it would be without idx++
LimitNextNoCount(self, junk) ==
  LET Got(r) ==
        NextResult([self EXCEPT !.it = r.it], r.val, r.exc, r.ub, r.calls)
  IN  Once({Got(r) : r \in {next(self.it, junk)}})

LimitNext(self, junk) ==
  LET Got(r) ==
        NextResult([self EXCEPT !.idx = @ + 1, !.it = r.it], r.val, r.exc,
                   r.ub, r.calls)
  IN  Once({Got(r) : r \in {next(self.it, junk)}})

\* TypedStorage: entry of the log for a call of construct, get or destruct,
\* made on a slot that holds a value (`live`) or does not
Storage(fn, live) == Call("Storage", fn, IF live THEN 1 ELSE 0)

\* a slot holds a value from construct() to destruct()
FilterSlotLive(self) == self.currentValue # NoValue
FlatMapSlotLive(self) == self.innerIt # Uninit

\* FilterIterator::moveNext, where it stores the element found:
\* currentValue.construct(x) if !hasInit, else currentValue.get() = x
FilterStore(self) ==
  IF self.hasInit THEN Storage("get", FilterSlotLive(self))
  ELSE Storage("construct", FilterSlotLive(self))

\* FlatMapIterator::moveNext, where it stores the inner iterator:
\* innerIt.get() = ... if hasInnerIt, else innerIt.construct(...); followed
\* by the innerIt.get() of the test
FlatMapStore(self) ==
  IF self.hasInnerIt
  THEN <<Storage("get", FlatMapSlotLive(self)), Storage("get", TRUE)>>
  ELSE <<Storage("construct", FlatMapSlotLive(self)), Storage("get", TRUE)>>

\* FilterIterator::moveNext as it would be with the loop left at the first
\* element the predicate rejects
FilterLoopStopsAtMismatch(self, junk) ==
  LET Got(h, r) ==
        IF ~r.exc /\ Test(self.lambda, r.val)
        THEN MoveResult([self EXCEPT !.it = r.it,
                                     !.currentValue = r.val,
                                     !.hasInit = TRUE,
                                     !.hasValue = TRUE],
                        FALSE, r.ub,
                        h.calls \o r.calls
                          \o <<Call("Filter", self.lambda, r.val),
                               FilterStore(self)>>)
        ELSE MoveResult([self EXCEPT !.it = r.it], r.exc, r.ub,
                        Append(h.calls \o r.calls,
                               Call("Filter", self.lambda, r.val)))
      Asked(h) ==
        IF ~h.ret
        THEN MoveResult([self EXCEPT !.it = h.it], FALSE, FALSE, h.calls)
        ELSE Once({Got(h, r) : r \in {next(h.it, junk)}})
  IN  Once({Asked(h) : h \in {hasNext(self.it)}})

\* FilterIterator::moveNext, the loop after `hasValue = false`
FilterLoop(self, junk) ==
  LET Got(h, r) ==
        IF r.exc
        THEN MoveResult([self EXCEPT !.it = r.it], TRUE, r.ub,
                        h.calls \o r.calls)
        ELSE IF Test(self.lambda, r.val)
        THEN MoveResult([self EXCEPT !.it = r.it,
                                     !.currentValue = r.val,
                                     !.hasInit = TRUE,
                                     !.hasValue = TRUE],
                        FALSE, r.ub,
                        h.calls \o r.calls
                          \o <<Call("Filter", self.lambda, r.val),
                               FilterStore(self)>>)
        ELSE After(Append(h.calls \o r.calls,
                          Call("Filter", self.lambda, r.val)),
                   r.ub,
                   FilterLoop([self EXCEPT !.it = r.it], junk))
      Asked(h) ==
        IF ~h.ret
        THEN MoveResult([self EXCEPT !.it = h.it], FALSE, FALSE, h.calls)
        ELSE Once({Got(h, r) : r \in {next(h.it, junk)}})
  IN  Once({Asked(h) : h \in {hasNext(self.it)}})

FilterMoveNext(self, junk) ==
  FilterLoop([self EXCEPT !.hasValue = FALSE], junk)

\* FilterIterator(i, l) as it would be without moveNext in the constructor
FilterIteratorLazy(i, l) ==
  MoveResult([kind |-> "Filter", it |-> i, lambda |-> l,
              hasValue |-> FALSE, hasInit |-> FALSE,
              currentValue |-> NoValue], FALSE, FALSE, << >>)

\* FilterIterator(i, l): the constructor runs moveNext; the result of the
\* construction, the new object in `it`
FilterIterator(i, l) ==
  FilterMoveNext([kind |-> "Filter", it |-> i, lambda |-> l,
                  hasValue |-> FALSE, hasInit |-> FALSE,
                  currentValue |-> NoValue], NoValue)

FilterHasNext(self) == HasNextResult(self, self.hasValue)

\* FilterIterator::next as it would be without the call of moveNext
FilterNextNoRefill(self, junk) ==
  NextResult(self, IF self.hasInit THEN self.currentValue ELSE junk, FALSE,
             ~self.hasInit, <<Storage("get", FilterSlotLive(self))>>)

\* FilterIterator::next as it would be with `auto& x`, a reference to the
\* slot that moveNext then overwrites
FilterNextReturnsRefilled(self, junk) ==
  LET Moved(m) ==
        NextResult(m.it, IF m.it.hasInit THEN m.it.currentValue ELSE junk,
                   m.exc, m.ub \/ ~self.hasInit,
                   <<Storage("get", FilterSlotLive(self))>> \o m.calls)
  IN  Once({Moved(m) : m \in {FilterMoveNext(self, junk)}})

\* FilterIterator::next; get() on a slot never constructed is undefined:
\* the value read is `junk`
FilterNext(self, junk) ==
  LET Moved(x, m) ==
        NextResult(m.it, x, m.exc, m.ub \/ ~self.hasInit,
                   <<Storage("get", FilterSlotLive(self))>> \o m.calls)
  IN  Once({Moved(IF self.hasInit THEN self.currentValue ELSE junk, m) :
              m \in {FilterMoveNext(self, junk)}})

\* stream returned by a flat-map function, of which getIterator() is taken
InnerIterator(lam, x) ==
  IF lam = "rep" THEN StreamIterator(InnerData(x)) ELSE EmptyIterator

\* FlatMapIterator::moveNext as it would be with the while loop left at the
\* first inner stream that is empty
FlatMapLoopStopsAtEmpty(self, junk) ==
  LET Made(h, r, in) ==
        MoveResult([self EXCEPT !.streamIt = r.it,
                                !.innerIt = in.it,
                                !.hasInnerIt = TRUE,
                                !.hasValue = in.ret],
                   FALSE, r.ub,
                   Append(h.calls \o r.calls,
                          Call("FlatMap", self.lambda, r.val))
                     \o FlatMapStore(self) \o in.calls)
      Got(h, r) ==
        IF r.exc
        THEN MoveResult([self EXCEPT !.streamIt = r.it], TRUE, r.ub,
                        h.calls \o r.calls)
        ELSE Once({Made(h, r, in) :
                     in \in {hasNext(InnerIterator(self.lambda, r.val))}})
      Asked(h) ==
        IF ~h.ret
        THEN MoveResult([self EXCEPT !.streamIt = h.it], FALSE, FALSE,
                        h.calls)
        ELSE Once({Got(h, r) : r \in {next(h.it, junk)}})
  IN  Once({Asked(h) : h \in {hasNext(self.streamIt)}})

\* FlatMapIterator::moveNext, the while loop over the outer iterator
FlatMapLoop(self, junk) ==
  LET Made(h, r, in) ==
        IF in.ret
        THEN MoveResult([self EXCEPT !.streamIt = r.it,
                                     !.innerIt = in.it,
                                     !.hasInnerIt = TRUE,
                                     !.hasValue = TRUE],
                        FALSE, r.ub,
                        Append(h.calls \o r.calls,
                               Call("FlatMap", self.lambda, r.val))
                          \o FlatMapStore(self) \o in.calls)
        ELSE After(Append(h.calls \o r.calls,
                          Call("FlatMap", self.lambda, r.val))
                     \o FlatMapStore(self) \o in.calls,
                   r.ub,
                   FlatMapLoop([self EXCEPT !.streamIt = r.it,
                                            !.innerIt = in.it,
                                            !.hasInnerIt = TRUE], junk))
      Got(h, r) ==
        IF r.exc
        THEN MoveResult([self EXCEPT !.streamIt = r.it], TRUE, r.ub,
                        h.calls \o r.calls)
        ELSE Once({Made(h, r, in) :
                     in \in {hasNext(InnerIterator(self.lambda, r.val))}})
      Asked(h) ==
        IF ~h.ret
        THEN MoveResult([self EXCEPT !.streamIt = h.it], FALSE, FALSE,
                        h.calls)
        ELSE Once({Got(h, r) : r \in {next(h.it, junk)}})
  IN  Once({Asked(h) : h \in {hasNext(self.streamIt)}})

\* FlatMapIterator::moveNext as it would be without the test of the live
\* inner iterator
FlatMapMoveNextNoFastPath(self, junk) ==
  FlatMapLoop([self EXCEPT !.hasValue = FALSE], junk)

FlatMapMoveNext(self, junk) ==
  LET Asked(in) ==
        IF in.ret
        THEN MoveResult([self EXCEPT !.innerIt = in.it, !.hasValue = TRUE],
                        FALSE, FALSE,
                        <<Storage("get", FlatMapSlotLive(self))>>
                          \o in.calls)
        ELSE After(<<Storage("get", FlatMapSlotLive(self))>> \o in.calls,
                   FALSE,
                   FlatMapLoop([self EXCEPT !.innerIt = in.it,
                                            !.hasValue = FALSE], junk))
  IN  IF self.hasInnerIt
      THEN Once({Asked(in) : in \in {hasNext(self.innerIt)}})
      ELSE FlatMapLoop([self EXCEPT !.hasValue = FALSE], junk)

\* FlatMapIterator(i, l): the constructor runs moveNext; the result of the
\* construction, the new object in `it`
FlatMapIterator(i, l) ==
  FlatMapMoveNext([kind |-> "FlatMap", streamIt |-> i, lambda |-> l,
                   innerIt |-> Uninit, hasValue |-> FALSE,
                   hasInnerIt |-> FALSE], NoValue)

FlatMapHasNext(self) == HasNextResult(self, self.hasValue)

\* the element `r` taken from the inner iterator, then moveNext returned `m`
FlatMapMoved(r, m) ==
  NextResult(m.it, r.val, m.exc, r.ub \/ m.ub, r.calls \o m.calls)

\* FlatMapIterator::next; get() on a slot never constructed is undefined
FlatMapNext(self, junk) ==
  LET Got(r) ==
        IF r.exc
        THEN NextResult([self EXCEPT !.innerIt = r.it], NoValue, TRUE, r.ub,
                        <<Storage("get", FlatMapSlotLive(self))>> \o r.calls)
        ELSE After(<<Storage("get", FlatMapSlotLive(self))>>, FALSE,
                   Once({FlatMapMoved(r, m) :
                           m \in {FlatMapMoveNext([self EXCEPT
                                                     !.innerIt = r.it],
                                                  junk)}}))
  IN  IF ~self.hasInnerIt
      THEN NextResult(self, junk, FALSE, TRUE,
                      <<Storage("get", FlatMapSlotLive(self))>>)
      ELSE Once({Got(r) : r \in {next(self.innerIt, junk)}})

\* it.hasNext(), by the static type of `it`
hasNext(it) ==
  CASE it.kind = "Range" -> RangeHasNext(it)
    [] it.kind = "Empty" -> EmptyHasNext(it)
    [] it.kind = "Map" -> MapHasNext(it)
    [] it.kind = "Tap" -> TapHasNext(it)
    [] it.kind = "Limit" -> LimitHasNext(it)
    [] it.kind = "Filter" -> FilterHasNext(it)
    [] it.kind = "FlatMap" -> FlatMapHasNext(it)

\* entry of the log `calls` for a next() made on an iterator of type `kind`
\* while its hasNext() was false
Unguarded(kind) == [at |-> "Unguarded", fn |-> kind, arg |-> NoValue]

\* it.next(), by the static type of `it`; a call made while it.hasNext() is
\* false is entered in the log
next(it, junk) ==
  LET Noted(h, r) ==
        IF h.ret THEN r
        ELSE [r EXCEPT !.calls = <<Unguarded(it.kind)>> \o @]
  IN  Noted(hasNext(it),
            CASE it.kind = "Range" -> RangeNext(it, junk)
              [] it.kind = "Empty" -> EmptyNext(it, junk)
              [] it.kind = "Map" -> MapNext(it, junk)
              [] it.kind = "Tap" -> TapNext(it, junk)
              [] it.kind = "Limit" -> LimitNext(it, junk)
              [] it.kind = "Filter" -> FilterNext(it, junk)
              [] it.kind = "FlatMap" -> FlatMapNext(it, junk))

\* --------------------------------------------- copies and destruction
RECURSIVE CopyConstruct(_), Destruct(_)

\* the copy constructor of the type of `x`, run on `x`: the new object in
\* `it`. Map, Tap and Limit iterators copy their members; a Filter or
\* FlatMap iterator copies `it`/`streamIt` and the flags, then constructs
\* its slot from x's slot if the flag copied says x's slot holds a value.
CopyConstruct(x) ==
  LET Members(c) ==
        MoveResult([x EXCEPT !.it = c.it], FALSE, c.ub, c.calls)
      Filtered(c) ==
        IF x.hasInit
        THEN MoveResult([x EXCEPT !.it = c.it], FALSE,
                        c.ub \/ ~FilterSlotLive(x),
                        c.calls \o <<Storage("get", FilterSlotLive(x)),
                                     Storage("construct", FALSE)>>)
        ELSE MoveResult([x EXCEPT !.it = c.it, !.currentValue = NoValue],
                        FALSE, c.ub, c.calls)
      FlatMapped(c) ==
        IF x.hasInnerIt
        THEN MoveResult([x EXCEPT !.streamIt = c.it], FALSE,
                        c.ub \/ ~FlatMapSlotLive(x),
                        c.calls \o <<Storage("get", FlatMapSlotLive(x)),
                                     Storage("construct", FALSE)>>)
        ELSE MoveResult([x EXCEPT !.streamIt = c.it, !.innerIt = Uninit],
                        FALSE, c.ub, c.calls)
  IN  CASE x.kind \in {"Map", "Tap", "Limit"} -> Members(CopyConstruct(x.it))
        [] x.kind = "Filter" -> Filtered(CopyConstruct(x.it))
        [] x.kind = "FlatMap" -> FlatMapped(CopyConstruct(x.streamIt))
        [] OTHER -> MoveResult(x, FALSE, FALSE, << >>)

\* the move constructor of the type of `x`: it makes the calls the copy
\* constructor makes; an element or a source iterator moved from keeps its
\* value, so `x` is left as it was
MoveConstruct(x) == CopyConstruct(x)

\* FilterIterator's destructor as it would be without the test of hasInit
DestructUnconditional(x) ==
  CASE x.kind \in {"Map", "Tap", "Limit"} -> Destruct(x.it)
    [] x.kind = "Filter" ->
         <<Storage("destruct", FilterSlotLive(x))>> \o Destruct(x.it)
    [] x.kind = "FlatMap" ->
         (IF x.hasInnerIt
          THEN <<Storage("destruct", FlatMapSlotLive(x))>> ELSE << >>)
           \o Destruct(x.streamIt)
    [] OTHER -> << >>

\* the destructor of the type of `x`, run on `x`: the TypedStorage calls it
\* makes. The body runs first, then the members are destroyed.
Destruct(x) ==
  CASE x.kind \in {"Map", "Tap", "Limit"} -> Destruct(x.it)
    [] x.kind = "Filter" ->
         (IF x.hasInit
          THEN <<Storage("destruct", FilterSlotLive(x))>> ELSE << >>)
           \o Destruct(x.it)
    [] x.kind = "FlatMap" ->
         (IF x.hasInnerIt
          THEN <<Storage("destruct", FlatMapSlotLive(x))>> ELSE << >>)
           \o Destruct(x.streamIt)
    [] OTHER -> << >>

\* the iterator `x` of a Stream handed to the constructor of a new
\* iterator: copied into the parameter of the Stream subclass constructor,
\* moved from there into the parameter of the iterator constructor, copied
\* from there into the member. `it` is the member, `params` the two
\* parameters, which are destroyed when the constructors return.
Handed(x) ==
  LET Third(c1, c2, c3) ==
        [it |-> c3.it, ub |-> c1.ub \/ c2.ub \/ c3.ub,
         calls |-> c1.calls \o c2.calls \o c3.calls,
         params |-> <<c2.it, c1.it>>]
      Second(c1, c2) == Third(c1, c2, CopyConstruct(c2.it))
      First(c1) == Second(c1, MoveConstruct(c1.it))
  IN  First(CopyConstruct(x))

\* ---------------------------------------------------- terminal operations
\* functions handed to the terminal operations
TermPreds == {"odd"}
ReduceFuncs == {"shift"}
ReduceInits == {1}
Containers == {<<7>>}

\* f(element, accu)
Fold(f, x, accu) == IF f = "sum" THEN accu + x ELSE 2 * accu + x

\* result of a terminal operation: the iterator it leaves, what it returned
\* (`val` a number, `ok` a truth value, `cont` the container written to),
\* the number of next() calls it made on the stream's iterator
TermResult(it, val, ok, cont, pulls, exc, ub, calls) ==
  [it |-> it, val |-> val, ok |-> ok, cont |-> cont, pulls |-> pulls,
   exc |-> exc, ub |-> ub, calls |-> calls]

\* the loop found hasNext() false
Exhausted(h, val, ok, cont) ==
  TermResult(h.it, val, ok, cont, 0, FALSE, FALSE, h.calls)

\* the work of one loop iteration put in front of the rest of the loop
Then(h, r, own, rest) ==
  [rest EXCEPT !.pulls = @ + 1,
               !.ub = r.ub \/ @,
               !.calls = h.calls \o r.calls \o own \o @]

\* the loop left by `return` in the iteration that pulled `r`
Left(h, r, own, ok) ==
  TermResult(r.it, 0, ok, << >>, 1, FALSE, r.ub, h.calls \o r.calls \o own)

\* the loop left by an exception of next()
Thrown(h, r, val, ok, cont) ==
  TermResult(r.it, val, ok, cont, 1, TRUE, r.ub, h.calls \o r.calls)

RECURSIVE sink(_), forEach(_, _), reduce(_, _, _), allMatch(_, _),
          anyMatch(_, _), count(_, _), countIf(_, _, _), emplaceInto(_, _)

\* Stream::sink
sink(iterator) ==
  LET Got(h, r) ==
        IF r.exc THEN Thrown(h, r, 0, TRUE, << >>)
        ELSE Then(h, r, << >>, sink(r.it))
      Asked(h) ==
        IF ~h.ret THEN Exhausted(h, 0, TRUE, << >>)
        ELSE Got(h, next(h.it, NoValue))
  IN  Asked(hasNext(iterator))

\* Stream::forEach
forEach(iterator, f) ==
  LET Got(h, r) ==
        IF r.exc THEN Thrown(h, r, 0, TRUE, << >>)
        ELSE Then(h, r, <<Call("forEach", f, r.val)>>, forEach(r.it, f))
      Asked(h) ==
        IF ~h.ret THEN Exhausted(h, 0, TRUE, << >>)
        ELSE Got(h, next(h.it, NoValue))
  IN  Asked(hasNext(iterator))

\* Stream::reduce as it would be calling f(accu, element)
reduceSwapped(iterator, f, accu) ==
  LET Got(h, r) ==
        IF r.exc THEN Thrown(h, r, accu, TRUE, << >>)
        ELSE Then(h, r, <<Call("reduce", f, r.val)>>,
                  reduce(r.it, f, Fold(f, accu, r.val)))
      Asked(h) ==
        IF ~h.ret THEN Exhausted(h, accu, TRUE, << >>)
        ELSE Got(h, next(h.it, NoValue))
  IN  Asked(hasNext(iterator))

\* Stream::reduce
reduce(iterator, f, accu) ==
  LET Got(h, r) ==
        IF r.exc THEN Thrown(h, r, accu, TRUE, << >>)
        ELSE Then(h, r, <<Call("reduce", f, r.val)>>,
                  reduce(r.it, f, Fold(f, r.val, accu)))
      Asked(h) ==
        IF ~h.ret THEN Exhausted(h, accu, TRUE, << >>)
        ELSE Got(h, next(h.it, NoValue))
  IN  Asked(hasNext(iterator))

\* Stream::allMatch as it would be returning false once exhausted
allMatchFalseAtEnd(iterator, f) ==
  LET Got(h, r) ==
        IF r.exc THEN Thrown(h, r, 0, TRUE, << >>)
        ELSE IF ~Test(f, r.val)
        THEN Left(h, r, <<Call("allMatch", f, r.val)>>, FALSE)
        ELSE Then(h, r, <<Call("allMatch", f, r.val)>>, allMatch(r.it, f))
      Asked(h) ==
        IF ~h.ret THEN Exhausted(h, 0, FALSE, << >>)
        ELSE Got(h, next(h.it, NoValue))
  IN  Asked(hasNext(iterator))

\* Stream::allMatch
allMatch(iterator, f) ==
  LET Got(h, r) ==
        IF r.exc THEN Thrown(h, r, 0, TRUE, << >>)
        ELSE IF ~Test(f, r.val)
        THEN Left(h, r, <<Call("allMatch", f, r.val)>>, FALSE)
        ELSE Then(h, r, <<Call("allMatch", f, r.val)>>, allMatch(r.it, f))
      Asked(h) ==
        IF ~h.ret THEN Exhausted(h, 0, TRUE, << >>)
        ELSE Got(h, next(h.it, NoValue))
  IN  Asked(hasNext(iterator))

\* Stream::anyMatch as it would be pulling on after the first match
anyMatchDrains(iterator, f) ==
  LET Got(h, r) ==
        IF r.exc THEN Thrown(h, r, 0, FALSE, << >>)
        ELSE Then(h, r, <<Call("anyMatch", f, r.val)>>,
                  [anyMatch(r.it, f) EXCEPT !.ok = Test(f, r.val) \/ @])
      Asked(h) ==
        IF ~h.ret THEN Exhausted(h, 0, FALSE, << >>)
        ELSE Got(h, next(h.it, NoValue))
  IN  Asked(hasNext(iterator))

\* Stream::anyMatch as it would be returning false at the first non-match
anyMatchStopsAtMismatch(iterator, f) ==
  LET Got(h, r) ==
        IF r.exc THEN Thrown(h, r, 0, FALSE, << >>)
        ELSE Left(h, r, <<Call("anyMatch", f, r.val)>>, Test(f, r.val))
      Asked(h) ==
        IF ~h.ret THEN Exhausted(h, 0, FALSE, << >>)
        ELSE Got(h, next(h.it, NoValue))
  IN  Asked(hasNext(iterator))

\* Stream::anyMatch
anyMatch(iterator, f) ==
  LET Got(h, r) ==
        IF r.exc THEN Thrown(h, r, 0, FALSE, << >>)
        ELSE IF Test(f, r.val)
        THEN Left(h, r, <<Call("anyMatch", f, r.val)>>, TRUE)
        ELSE Then(h, r, <<Call("anyMatch", f, r.val)>>, anyMatch(r.it, f))
      Asked(h) ==
        IF ~h.ret THEN Exhausted(h, 0, FALSE, << >>)
        ELSE Got(h, next(h.it, NoValue))
  IN  Asked(hasNext(iterator))

\* Stream::count(), the loop with the counter at `ctr`
count(iterator, ctr) ==
  LET Got(h, r) ==
        IF r.exc THEN Thrown(h, r, ctr, TRUE, << >>)
        ELSE Then(h, r, << >>, count(r.it, ctr + 1))
      Asked(h) ==
        IF ~h.ret THEN Exhausted(h, ctr, TRUE, << >>)
        ELSE Got(h, next(h.it, NoValue))
  IN  Asked(hasNext(iterator))

\* Stream::count(f), the loop with the counter at `ctr`
countIf(iterator, f, ctr) ==
  LET Got(h, r) ==
        IF r.exc THEN Thrown(h, r, ctr, TRUE, << >>)
        ELSE Then(h, r, <<Call("count", f, r.val)>>,
                  countIf(r.it, f, IF Test(f, r.val) THEN ctr + 1 ELSE ctr))
      Asked(h) ==
        IF ~h.ret THEN Exhausted(h, ctr, TRUE, << >>)
        ELSE Got(h, next(h.it, NoValue))
  IN  Asked(hasNext(iterator))

\* Stream::emplaceInto
emplaceInto(iterator, cont) ==
  LET Got(h, r) ==
        IF r.exc THEN Thrown(h, r, 0, TRUE, cont)
        ELSE Then(h, r, << >>, emplaceInto(r.it, Append(cont, r.val)))
      Asked(h) ==
        IF ~h.ret THEN Exhausted(h, 0, TRUE, cont)
        ELSE Got(h, next(h.it, NoValue))
  IN  Asked(hasNext(iterator))

\* ------------------------------------------------------------ the program
\* streams: the Stream objects the program holds, oldest first: the Stream
\*          the last chaining call was made on (if any) and the newest one
\* seen:    the elements the tap function has been invoked with, in order
\* misuse:  number of next() calls made while hasNext() was false
\* last:    the last call made and what it returned
\* phase:   "build" while the chain is being composed, "pull" once the
\*          program has used the iterator itself, "done" once a terminal
\*          operation ran, "gone" once the Streams are destroyed
VARIABLES streams, seen, misuse, last, phase

vars == <<streams, seen, misuse, last, phase>>

\* Stream(it)
Stream(it) == [iterator |-> it]

\* number of transform stages wrapped around the source
RECURSIVE Stages(_)
Stages(it) ==
  CASE it.kind \in {"Map", "Tap", "Limit", "Filter"} -> 1 + Stages(it.it)
    [] it.kind = "FlatMap" -> 1 + Stages(it.streamIt)
    [] OTHER -> 0

Newest == streams[Len(streams)]

\* the arguments that tap functions were invoked with
RECURSIVE Tapped(_)
Tapped(calls) ==
  IF calls = << >> THEN << >>
  ELSE IF Head(calls).at = "Tap"
       THEN <<Head(calls).arg>> \o Tapped(Tail(calls))
       ELSE Tapped(Tail(calls))

\* `lam` and `num` are the function and the number handed to the call
Returned(op, on, lam, num, val, ok, cont, pulls, exc, ub, crash, calls) ==
  [op |-> op, on |-> on, lam |-> lam, num |-> num, val |-> val, ok |-> ok,
   cont |-> cont, pulls |-> pulls, exc |-> exc, ub |-> ub, crash |-> crash,
   calls |-> calls]

\* the program runs on unless it ran into undefined behaviour or its
\* Streams are gone
Running == ~last.ub /\ phase # "gone"

SourceData == UNION {[1..n -> Elem] : n \in 0..MaxLen}

\* of(container) or empty<T>()
Init ==
  /\ \/ \E data \in SourceData : streams = <<Stream(StreamIterator(data))>>
     \/ streams = <<Stream(EmptyIterator)>>
  /\ seen = << >>
  /\ misuse = 0
  /\ last = Returned("of", 1, "", 0, 0, TRUE, << >>, 0, FALSE, FALSE, FALSE,
                     << >>)
  /\ phase = "build"

\* an iterator constructed without running any code of the chain
Plain(it) == MoveResult(it, FALSE, FALSE, << >>)

\* a chaining call on the newest Stream returned a new Stream. The
\* iterator of the Stream called on was handed (`h`) to the constructor of
\* the new iterator, whose construction is `c`; the new iterator is a
\* temporary, moved into the member of the Stream returned and destroyed,
\* as are the parameters. The Stream called on is left as it was.
Chained(op, lam, num, h, c) ==
  LET Placed(f) ==
        /\ streams' = <<Newest, Stream(f.it)>>
        /\ seen' = seen \o Tapped(c.calls)
        /\ last' = Returned(op, Len(streams), lam, num, 0, TRUE, << >>, 0,
                            FALSE, h.ub \/ c.ub \/ f.ub, FALSE,
                            h.calls \o c.calls \o f.calls
                              \o Destruct(c.it) \o Destruct(h.params[1])
                              \o Destruct(h.params[2]))
        /\ UNCHANGED <<misuse, phase>>
  IN  Placed(MoveConstruct(c.it))

\* a chain is composed before it is pulled from
CanChain ==
  Running /\ phase = "build" /\ Stages(Newest.iterator) < MaxStages

\* Stream::map
Map ==
  /\ CanChain
  /\ \E l \in MapLams :
       LET Made(h) == Chained("map", l, 0, h, Plain(MapIterator(h.it, l)))
       IN  Made(Handed(Newest.iterator))

\* Stream::flatMap
FlatMap ==
  /\ CanChain
  /\ \E l \in FlatMapLams :
       LET Made(h) == Chained("flatMap", l, 0, h, FlatMapIterator(h.it, l))
       IN  Made(Handed(Newest.iterator))

\* Stream::filter
Filter ==
  /\ CanChain
  /\ \E l \in FilterLams :
       LET Made(h) == Chained("filter", l, 0, h, FilterIterator(h.it, l))
       IN  Made(Handed(Newest.iterator))

\* Stream::tap
Tap ==
  /\ CanChain
  /\ \E l \in TapLams :
       LET Made(h) == Chained("tap", l, 0, h, Plain(TapIterator(h.it, l)))
       IN  Made(Handed(Newest.iterator))

\* Stream::limit
Limit ==
  /\ CanChain
  /\ \E s \in LimitSizes :
       LET Made(h) ==
             Chained("limit", "", s, h, Plain(LimitIterator(h.it, s)))
       IN  Made(Handed(Newest.iterator))

\* the Stream the program pulls from
Pulled == {Len(streams)}

\* getIterator().hasNext() on the k-th Stream
HasNextCall ==
  /\ Running
  /\ \E k \in Pulled :
       LET Asked(h) ==
             /\ streams' = [streams EXCEPT ![k].iterator = h.it]
             /\ seen' = seen \o Tapped(h.calls)
             /\ last' = Returned("hasNext", k, "", 0, 0, h.ret, << >>, 0,
                                 FALSE, FALSE, FALSE, h.calls)
             /\ phase' = IF phase = "build" THEN "pull" ELSE phase
             /\ UNCHANGED misuse
       IN  Asked(hasNext(streams[k].iterator))

\* getIterator().next() on the k-th Stream, after a hasNext() that returned
\* true or, at most MaxMisuse times, without one. Where the call is
\* undefined it returns any value `junk` or ends the program (`crash`).
NextCall ==
  /\ Running
  /\ \E k \in Pulled, junk \in Elem, crash \in BOOLEAN :
       LET Got(h, r) ==
             /\ h.ret \/ misuse < MaxMisuse
             /\ r.ub \/ (junk = 1 /\ ~crash)
             /\ crash => junk = 1
             /\ streams' = [streams EXCEPT ![k].iterator = r.it]
             /\ seen' = seen \o Tapped(r.calls)
             /\ misuse' = IF h.ret THEN misuse ELSE misuse + 1
             /\ last' = Returned("next", k, "", 0,
                                 IF crash THEN NoValue ELSE r.val, TRUE,
                                 << >>, 1, r.exc, r.ub, crash, r.calls)
             /\ phase' = IF phase = "build" THEN "pull" ELSE phase
       IN  Got(hasNext(streams[k].iterator), next(streams[k].iterator, junk))

\* a terminal operation on the k-th Stream returned `t`
Terminated(op, k, lam, num, t) ==
  /\ streams' = [streams EXCEPT ![k].iterator = t.it]
  /\ seen' = seen \o Tapped(t.calls)
  /\ last' = Returned(op, k, lam, num, t.val, t.ok, t.cont, t.pulls, t.exc,
                      t.ub, FALSE, t.calls)
  /\ phase' = "done"
  /\ UNCHANGED misuse

\* one terminal operation drives the chain, fresh or partly pulled from
CanTerminate == Running /\ phase # "done"

Sink ==
  /\ CanTerminate
  /\ \E k \in Pulled :
       Terminated("sink", k, "", 0, sink(streams[k].iterator))

ForEach ==
  /\ CanTerminate
  /\ \E k \in Pulled :
       Terminated("forEach", k, "f", 0, forEach(streams[k].iterator, "f"))

Reduce ==
  /\ CanTerminate
  /\ \E k \in Pulled, f \in ReduceFuncs, initial \in ReduceInits :
       Terminated("reduce", k, f, initial,
                  reduce(streams[k].iterator, f, initial))

AllMatch ==
  /\ CanTerminate
  /\ \E k \in Pulled, f \in TermPreds :
       Terminated("allMatch", k, f, 0, allMatch(streams[k].iterator, f))

AnyMatch ==
  /\ CanTerminate
  /\ \E k \in Pulled, f \in TermPreds :
       Terminated("anyMatch", k, f, 0, anyMatch(streams[k].iterator, f))

Count ==
  /\ CanTerminate
  /\ \E k \in Pulled :
       Terminated("count", k, "", 0, count(streams[k].iterator, 0))

CountIf ==
  /\ CanTerminate
  /\ \E k \in Pulled, f \in TermPreds :
       Terminated("countIf", k, f, 0, countIf(streams[k].iterator, f, 0))

EmplaceInto ==
  /\ CanTerminate
  /\ \E k \in Pulled, cont \in Containers :
       Terminated("emplaceInto", k, "", 0,
                  emplaceInto(streams[k].iterator, cont))

\* the Streams go out of scope: their destructors run, the newest first
ScopeExit ==
  /\ Running
  /\ last' = Returned("exit", Len(streams), "", 0, 0, TRUE, << >>, 0, FALSE,
                      FALSE, FALSE,
                      IF Len(streams) = 2
                      THEN Destruct(streams[2].iterator)
                             \o Destruct(streams[1].iterator)
                      ELSE Destruct(streams[1].iterator))
  /\ phase' = "gone"
  /\ UNCHANGED <<streams, seen, misuse>>

Next ==
  \/ Map \/ FlatMap \/ Filter \/ Tap \/ Limit
  \/ HasNextCall \/ NextCall
  \/ Sink \/ ForEach \/ Reduce \/ AllMatch \/ AnyMatch \/ Count \/ CountIf
  \/ EmplaceInto
  \/ ScopeExit

Spec == Init /\ [][Next]_vars

\* ---------------------------------------------- the composed pipeline
\* The program  of(data).filter(p).map(f).limit(n).emplaceInto(c),  one
\* call per step.
PipeLen == 5
PipeLimit == 3
PipeElem == 1..5
PipePreds == {"odd", "gt2"}

PipeInit ==
  /\ \E n \in 0..PipeLen : \E data \in [1..n -> PipeElem] :
       streams = <<Stream(StreamIterator(data))>>
  /\ seen = << >>
  /\ misuse = 0
  /\ last = Returned("of", 1, "", 0, 0, TRUE, << >>, 0, FALSE, FALSE, FALSE,
                     << >>)
  /\ phase = "build"

\* Stream::filter on the Stream of(data) returned
PipeFilter ==
  /\ last.op = "of"
  /\ \E p \in PipePreds :
       LET Made(h) == Chained("filter", p, 0, h, FilterIterator(h.it, p))
       IN  Made(Handed(Newest.iterator))

\* Stream::map on the Stream filter(p) returned
PipeMap ==
  /\ last.op = "filter"
  /\ \E f \in MapLams :
       LET Made(h) == Chained("map", f, 0, h, Plain(MapIterator(h.it, f)))
       IN  Made(Handed(Newest.iterator))

\* Stream::limit on the Stream map(f) returned
PipeLimitCall ==
  /\ last.op = "map"
  /\ \E n \in 0..PipeLimit :
       LET Made(h) ==
             Chained("limit", "", n, h, Plain(LimitIterator(h.it, n)))
       IN  Made(Handed(Newest.iterator))

\* Stream::emplaceInto on the Stream limit(n) returned
PipeEmplaceInto ==
  /\ last.op = "limit"
  /\ \E c \in Containers :
       Terminated("emplaceInto", Len(streams), "", 0,
                  emplaceInto(Newest.iterator, c))

PipeNext == PipeFilter \/ PipeMap \/ PipeLimitCall \/ PipeEmplaceInto

PipeSpec == PipeInit /\ [][PipeNext]_vars

\* ------------------------------------------------- the loops, by steps
\* The loops of the library one iteration per step: the while loop of
\* moveNext run by the constructor of a Filter or FlatMap iterator (phase
\* "refill") and the while loop of a terminal operation (phase "drain").
\* An iteration evaluates the loop condition and, if it holds, the body;
\* the hasNext() and next() calls it makes on the upstream are evaluated
\* whole. The sources are ranges over finite containers.
LoopInit ==
  /\ \E data \in SourceData : streams = <<Stream(StreamIterator(data))>>
  /\ seen = << >>
  /\ misuse = 0
  /\ last = Returned("of", 1, "", 0, 0, TRUE, << >>, 0, FALSE, FALSE, FALSE,
                     << >>)
  /\ phase = "build"

\* a constructor whose body runs moveNext was entered on the object `obj`,
\* its members initialised from what was handed in (`h`)
Entered(op, lam, h, obj) ==
  /\ streams' = <<Newest, Stream(obj)>>
  /\ last' = Returned(op, Len(streams), lam, 0, 0, TRUE, << >>, 0, FALSE,
                      h.ub, FALSE, h.calls)
  /\ phase' = "refill"
  /\ UNCHANGED <<seen, misuse>>

\* Stream::filter up to the while loop of moveNext in the constructor
FilterEnter ==
  /\ CanChain
  /\ \E l \in FilterLams :
       LET Made(h) ==
             Entered("filter", l, h,
                     [kind |-> "Filter", it |-> h.it, lambda |-> l,
                      hasValue |-> FALSE, hasInit |-> FALSE,
                      currentValue |-> NoValue])
       IN  Made(Handed(Newest.iterator))

\* Stream::flatMap up to the while loop of moveNext in the constructor;
\* hasInnerIt is false, so the test before the loop fails
FlatMapEnter ==
  /\ CanChain
  /\ \E l \in FlatMapLams :
       LET Made(h) ==
             Entered("flatMap", l, h,
                     [kind |-> "FlatMap", streamIt |-> h.it, lambda |-> l,
                      innerIt |-> Uninit, hasValue |-> FALSE,
                      hasInnerIt |-> FALSE])
       IN  Made(Handed(Newest.iterator))

\* an iteration of a loop left the newest iterator as `obj`, after the
\* calls `calls`; the loop goes on or the function returns (`to`)
Iterated(obj, calls, ub, to) ==
  /\ streams' = [streams EXCEPT ![Len(streams)].iterator = obj]
  /\ seen' = seen \o Tapped(calls)
  /\ last' = [last EXCEPT !.calls = @ \o calls, !.ub = @ \/ ub]
  /\ phase' = to
  /\ UNCHANGED misuse

\* FilterIterator::moveNext: one iteration of  while (it.hasNext()) {...}
FilterIterate ==
  /\ phase = "refill"
  /\ ~last.ub
  /\ Newest.iterator.kind = "Filter"
  /\ LET self == Newest.iterator
         Got(h, r) ==
           IF Test(self.lambda, r.val)
           THEN Iterated([self EXCEPT !.it = r.it,
                                      !.currentValue = r.val,
                                      !.hasInit = TRUE,
                                      !.hasValue = TRUE],
                         h.calls \o r.calls
                           \o <<Call("Filter", self.lambda, r.val),
                                FilterStore(self)>>,
                         r.ub, "build")
           ELSE Iterated([self EXCEPT !.it = r.it],
                         Append(h.calls \o r.calls,
                                Call("Filter", self.lambda, r.val)),
                         r.ub, "refill")
         Asked(h) ==
           IF ~h.ret
           THEN Iterated([self EXCEPT !.it = h.it], h.calls, FALSE, "build")
           ELSE \E r \in {next(h.it, NoValue)} : Got(h, r)
     IN  \E h \in {hasNext(self.it)} : Asked(h)

\* FlatMapIterator::moveNext: one iteration of
\* while (streamIt.hasNext()) {...}
FlatMapIterate ==
  /\ phase = "refill"
  /\ ~last.ub
  /\ Newest.iterator.kind = "FlatMap"
  /\ LET self == Newest.iterator
         Made(h, r, in) ==
           Iterated([self EXCEPT !.streamIt = r.it,
                                 !.innerIt = in.it,
                                 !.hasInnerIt = TRUE,
                                 !.hasValue = in.ret],
                    Append(h.calls \o r.calls,
                           Call("FlatMap", self.lambda, r.val))
                      \o FlatMapStore(self) \o in.calls,
                    r.ub, IF in.ret THEN "build" ELSE "refill")
         Got(h, r) ==
           \E in \in {hasNext(InnerIterator(self.lambda, r.val))} :
              Made(h, r, in)
         Asked(h) ==
           IF ~h.ret
           THEN Iterated([self EXCEPT !.streamIt = h.it], h.calls, FALSE,
                         "build")
           ELSE \E r \in {next(h.it, NoValue)} : Got(h, r)
     IN  \E h \in {hasNext(self.streamIt)} : Asked(h)

\* the terminal operations with the function and the number they are
\* handed and what they return if the loop body never runs
LoopCalls ==
  {[op |-> "sink", lam |-> "", num |-> 0, ok |-> TRUE],
   [op |-> "forEach", lam |-> "f", num |-> 0, ok |-> TRUE],
   [op |-> "allMatch", lam |-> "odd", num |-> 0, ok |-> TRUE],
   [op |-> "anyMatch", lam |-> "odd", num |-> 0, ok |-> FALSE],
   [op |-> "count", lam |-> "", num |-> 0, ok |-> TRUE],
   [op |-> "countIf", lam |-> "odd", num |-> 0, ok |-> TRUE],
   [op |-> "emplaceInto", lam |-> "", num |-> 0, ok |-> TRUE]}
  \cup {[op |-> "reduce", lam |-> f, num |-> i, ok |-> TRUE] :
          f \in ReduceFuncs, i \in ReduceInits}

\* a terminal operation up to its while loop
TerminalEnter ==
  /\ phase = "build"
  /\ ~last.ub
  /\ \E c \in LoopCalls, cont \in Containers :
       last' = Returned(c.op, Len(streams), c.lam, c.num, c.num, c.ok,
                        IF c.op = "emplaceInto" THEN cont ELSE << >>, 0,
                        FALSE, FALSE, FALSE, << >>)
  /\ phase' = "drain"
  /\ UNCHANGED <<streams, seen, misuse>>

\* the body of the loop of the terminal operation `l.op` run on the
\* element `x`: what the operation holds afterwards; `ret` if it returns
Body(l, x) ==
  CASE l.op = "forEach" ->
         [val |-> l.val, ok |-> l.ok, cont |-> l.cont, ret |-> FALSE,
          own |-> <<Call("forEach", l.lam, x)>>]
    [] l.op = "reduce" ->
         [val |-> Fold(l.lam, x, l.val), ok |-> l.ok, cont |-> l.cont,
          ret |-> FALSE, own |-> <<Call("reduce", l.lam, x)>>]
    [] l.op = "allMatch" ->
         [val |-> l.val, ok |-> Test(l.lam, x), cont |-> l.cont,
          ret |-> ~Test(l.lam, x), own |-> <<Call("allMatch", l.lam, x)>>]
    [] l.op = "anyMatch" ->
         [val |-> l.val, ok |-> Test(l.lam, x), cont |-> l.cont,
          ret |-> Test(l.lam, x), own |-> <<Call("anyMatch", l.lam, x)>>]
    [] l.op = "count" ->
         [val |-> l.val + 1, ok |-> l.ok, cont |-> l.cont, ret |-> FALSE,
          own |-> << >>]
    [] l.op = "countIf" ->
         [val |-> IF Test(l.lam, x) THEN l.val + 1 ELSE l.val, ok |-> l.ok,
          cont |-> l.cont, ret |-> FALSE,
          own |-> <<Call("count", l.lam, x)>>]
    [] l.op = "emplaceInto" ->
         [val |-> l.val, ok |-> l.ok, cont |-> Append(l.cont, x),
          ret |-> FALSE, own |-> << >>]
    [] OTHER ->
         [val |-> l.val, ok |-> l.ok, cont |-> l.cont, ret |-> FALSE,
          own |-> << >>]

\* the loop of a terminal operation as it would be without the call of
\* iterator.next()
TerminalIterateNoPull ==
  /\ phase = "drain"
  /\ ~last.ub
  /\ \E h \in {hasNext(Newest.iterator)} :
       /\ phase' = IF h.ret THEN "drain" ELSE "done"
       /\ UNCHANGED <<streams, seen, misuse, last>>

\* a terminal operation: one iteration of
\* while (iterator.hasNext()) { ... iterator.next() ... }
TerminalIterate ==
  /\ phase = "drain"
  /\ ~last.ub
  /\ LET Done(r, b) ==
           /\ streams' = [streams EXCEPT ![Len(streams)].iterator = r.it]
           /\ seen' = seen \o Tapped(r.calls)
           /\ last' = [last EXCEPT !.val = b.val, !.ok = b.ok,
                                   !.cont = b.cont, !.pulls = @ + 1,
                                   !.exc = r.exc, !.ub = r.ub,
                                   !.calls = @ \o r.calls \o b.own]
           /\ phase' = IF b.ret \/ r.exc THEN "done" ELSE "drain"
           /\ UNCHANGED misuse
         Got(r) == \E b \in {Body(last, r.val)} : Done(r, b)
         Asked(h) ==
           IF ~h.ret
           THEN /\ phase' = "done"
                /\ UNCHANGED <<streams, seen, misuse, last>>
           ELSE \E r \in {next(h.it, NoValue)} : Got(r)
     IN  \E h \in {hasNext(Newest.iterator)} : Asked(h)

LoopNext ==
  \/ Map \/ Tap \/ Limit
  \/ FilterEnter \/ FilterIterate
  \/ FlatMapEnter \/ FlatMapIterate
  \/ TerminalEnter \/ TerminalIterate

\* the iterations of the loops
LoopStep == FilterIterate \/ FlatMapIterate \/ TerminalIterate

\* a loop entered keeps running: the program is one thread of control
LoopSpec == LoopInit /\ [][LoopNext]_vars /\ WF_vars(LoopStep)

\* ------------------------------------------------ a tap below a filter
\* The program  of(data).tap(g).filter(p).limit(n)  followed by a terminal
\* operation: one chaining call per step, then the loop of the terminal
\* operation one iteration per step.
TapChainLen == 4
TapChainPreds == {"odd", "gt1"}

TapChainInit ==
  /\ \E n \in 0..TapChainLen : \E data \in [1..n -> Elem] :
       streams = <<Stream(StreamIterator(data))>>
  /\ seen = << >>
  /\ misuse = 0
  /\ last = Returned("of", 1, "", 0, 0, TRUE, << >>, 0, FALSE, FALSE, FALSE,
                     << >>)
  /\ phase = "build"

\* Stream::tap on the Stream of(data) returned
TapChainTap ==
  /\ last.op = "of"
  /\ \E g \in TapLams :
       LET Made(h) == Chained("tap", g, 0, h, Plain(TapIterator(h.it, g)))
       IN  Made(Handed(Newest.iterator))

\* Stream::filter on the Stream tap(g) returned
TapChainFilter ==
  /\ last.op = "tap"
  /\ \E p \in TapChainPreds :
       LET Made(h) == Chained("filter", p, 0, h, FilterIterator(h.it, p))
       IN  Made(Handed(Newest.iterator))

\* Stream::limit on the Stream filter(p) returned
TapChainLimit ==
  /\ last.op = "filter"
  /\ \E n \in LimitSizes :
       LET Made(h) ==
             Chained("limit", "", n, h, Plain(LimitIterator(h.it, n)))
       IN  Made(Handed(Newest.iterator))

\* a terminal operation on the Stream limit(n) returned, up to its loop
TapChainEnter == last.op = "limit" /\ TerminalEnter

TapChainNext ==
  \/ TapChainTap \/ TapChainFilter \/ TapChainLimit
  \/ TapChainEnter \/ TerminalIterate

TapChainSpec == TapChainInit /\ [][TapChainNext]_vars

\* ------------------------------------------------------------ properties
\* what a terminal operation would collect from `it`
Elements(it) == emplaceInto(it, << >>).cont

\* the chain was composed and not yet pulled from, and its last stage is `kind`
Fresh(kind) ==
  /\ phase = "build"
  /\ Len(streams) = 2
  /\ Newest.iterator.kind = kind

\* what the Stream the last chaining call was made on would yield
Upstream == Elements(streams[1].iterator)

\* the step is a call of `op` on the Stream pulled from
Calls(op) == last'.op = op /\ phase' # "build"

Min(a, b) == IF a < b THEN a ELSE b

\* C1: next() called while hasNext() is false fails with IllegalState: it
\* yields no element and leaves every stage of the chain as it was.
C1_NextWhenExhaustedFails ==
  [][(Calls("next") /\ ~hasNext(Newest.iterator).ret)
       => (last'.exc /\ streams' = streams)]_vars

\* C2: filter(f) yields exactly the upstream elements satisfying f, in
\* upstream order; count() on filter(f) is count(f) on the upstream.
C2_FilterYieldsMatches ==
  [][Fresh("Filter") =>
       LET f == Newest.iterator.lambda
           Matches == SelectSeq(Upstream, LAMBDA x : Test(f, x))
       IN  /\ Calls("emplaceInto")
                => \E c \in Containers : last'.cont = c \o Matches
           /\ Calls("count")
                => last'.val = countIf(streams[1].iterator, f, 0).val
           /\ Calls("count") => last'.val = Len(Matches)]_vars

\* a filter over three source elements, the middle one rejected, counted
C2_Witness ==
  /\ phase = "done"
  /\ last.op = "count"
  /\ last.val = 2
  /\ Len(streams) = 2
  /\ Newest.iterator.kind = "Filter"
  /\ streams[1].iterator.kind = "Range"
  /\ streams[1].iterator.data = <<1, 2, 3>>

\* the inner streams of the elements `xs`, one after the other
RECURSIVE Flatten(_, _)
Flatten(lam, xs) ==
  IF xs = << >> THEN << >>
  ELSE Elements(InnerIterator(lam, Head(xs))) \o Flatten(lam, Tail(xs))

\* C3: flatMap yields the concatenation of the inner streams in outer order,
\* empty inner streams contributing nothing; if all inner streams are empty
\* the result is empty and hasNext() is false from construction.
C3_FlatMapConcatenates ==
  [][Fresh("FlatMap") =>
       LET Flat == Flatten(Newest.iterator.lambda, Upstream)
       IN  /\ Calls("emplaceInto")
                => \E c \in Containers : last'.cont = c \o Flat
           /\ Flat = << >> => ~hasNext(Newest.iterator).ret]_vars

\* empty inner streams first and last, a two-element inner stream between
C3_Witness ==
  /\ phase = "done"
  /\ last.op = "emplaceInto"
  /\ last.cont = <<7, 2, 3>>
  /\ Len(streams) = 2
  /\ Newest.iterator.kind = "FlatMap"
  /\ streams[1].iterator.kind = "Range"
  /\ streams[1].iterator.data = <<3, 2, 3>>

\* C4: limit(n), n >= 0, drained by a terminal operation yields the first
\* min(n, m) of the m upstream elements, in order.
C4_LimitYieldsPrefix ==
  [][(Fresh("Limit") /\ Newest.iterator.size >= 0) =>
       LET n == Min(Newest.iterator.size, Len(Upstream))
       IN  /\ Calls("emplaceInto")
                => \E c \in Containers :
                     last'.cont = c \o SubSeq(Upstream, 1, n)
           /\ Calls("count") => last'.val = n]_vars

\* limit(2) over three elements
C4_Witness ==
  /\ phase = "done"
  /\ last.op = "emplaceInto"
  /\ last.cont = <<7, 3, 1>>
  /\ Len(streams) = 2
  /\ Newest.iterator.kind = "Limit"
  /\ Newest.iterator.size = 2
  /\ streams[1].iterator.kind = "Range"
  /\ streams[1].iterator.data = <<3, 1, 2>>

\* C5: map(f) yields f(x1)..f(xk), one output per upstream element in
\* order, so count() is the upstream's count(); and at every moment map's
\* hasNext() is its upstream's.
C5_MapIsOneToOne ==
  /\ [](\A k \in DOMAIN streams :
          streams[k].iterator.kind = "Map"
            => hasNext(streams[k].iterator).ret
                 = hasNext(streams[k].iterator.it).ret)
  /\ [][Fresh("Map") =>
          LET f == Newest.iterator.lambda
          IN  /\ Calls("emplaceInto")
                   => \E c \in Containers :
                        last'.cont
                          = c \o [i \in 1..Len(Upstream)
                                    |-> Apply(f, Upstream[i])]
              /\ Calls("count")
                   => last'.val = count(streams[1].iterator, 0).val]_vars

\* a map over a filtered source, collected
C5_Witness ==
  /\ phase = "done"
  /\ last.op = "emplaceInto"
  /\ last.cont = <<7, 30, 10>>
  /\ Len(streams) = 2
  /\ Newest.iterator.kind = "Map"
  /\ streams[1].iterator.kind = "Filter"

\* what the Stream pulled from would yield
Pending == Elements(Newest.iterator)

\* C6: allMatch(f) is true exactly when every element the stream would
\* yield satisfies f, anyMatch(f) exactly when one does; on a stream that
\* yields nothing allMatch is true and anyMatch false.
C6_MatchResults ==
  [][/\ Calls("allMatch")
          => last'.ok = (\A i \in 1..Len(Pending) :
                           Test(last'.lam, Pending[i]))
     /\ Calls("anyMatch")
          => last'.ok = (\E i \in 1..Len(Pending) :
                           Test(last'.lam, Pending[i]))]_vars

\* allMatch on empty<T>() returned true
C6_Witness ==
  /\ phase = "done"
  /\ last.op = "allMatch"
  /\ last.ok
  /\ last.pulls = 0
  /\ Newest.iterator.kind = "Empty"

\* the elements a terminal operation applied its own function to
RECURSIVE OwnArgs(_, _)
OwnArgs(op, calls) ==
  IF calls = << >> THEN << >>
  ELSE IF Head(calls).at = op
       THEN <<Head(calls).arg>> \o OwnArgs(op, Tail(calls))
       ELSE OwnArgs(op, Tail(calls))

\* the element at which allMatch / anyMatch stops
Stops(op, f, x) == IF op = "allMatch" THEN ~Test(f, x) ELSE Test(f, x)

\* C7: allMatch and anyMatch short-circuit: when the k-th element yielded is
\* the first non-match (first match), the operation makes exactly k calls of
\* next(), applies the predicate to those k elements only, and the elements
\* after the k-th remain available from the iterator.
C7_MatchShortCircuits ==
  [][(Calls("allMatch") \/ Calls("anyMatch")) =>
       LET hits == {i \in 1..Len(Pending) :
                      Stops(last'.op, last'.lam, Pending[i])}
       IN  hits # {} =>
             LET k == CHOOSE i \in hits : \A j \in hits : i <= j
             IN  /\ last'.pulls = k
                 /\ OwnArgs(last'.op, last'.calls) = SubSeq(Pending, 1, k)
                 /\ Elements(streams'[Len(streams')].iterator)
                      = SubSeq(Pending, k + 1, Len(Pending))]_vars

\* anyMatch returned true at the second element, with elements left
C7_Witness ==
  /\ phase = "done"
  /\ last.op = "anyMatch"
  /\ last.ok
  /\ last.pulls = 2
  /\ hasNext(Newest.iterator).ret

\* f(xk, ... f(x2, f(x1, initial)) ...)
RECURSIVE FoldAll(_, _, _)
FoldAll(f, xs, initial) ==
  IF xs = << >> THEN initial
  ELSE Fold(f, xs[Len(xs)],
            FoldAll(f, SubSeq(xs, 1, Len(xs) - 1), initial))

\* C8: reduce(f, initial) over x1..xk returns f(xk, ... f(x1, initial)),
\* f being applied once per element in pull order; initial if k = 0.
C8_ReduceFoldsLeft ==
  [][Calls("reduce") =>
       /\ last'.val = FoldAll(last'.lam, Pending, last'.num)
       /\ OwnArgs("reduce", last'.calls) = Pending]_vars

\* 2 * (2 * (2 * 1 + 1) + 2) + 3 over the source <<1, 2, 3>>
C8_Witness ==
  /\ phase = "done"
  /\ last.op = "reduce"
  /\ last.lam = "shift"
  /\ last.pulls = 3
  /\ last.val = 19

\* the call returned from a loop that ran until hasNext() was false
DrainedBy(l) ==
  \/ l.op \in {"sink", "forEach", "reduce", "count", "countIf",
               "emplaceInto"}
  \/ l.op = "allMatch" /\ l.ok
  \/ l.op = "anyMatch" /\ ~l.ok

\* C9: after a draining terminal operation has returned, hasNext() on the
\* stream's iterator is false, and stays false however often it is asked.
C9_DrainedStaysExhausted ==
  /\ [](DrainedBy(last) => ~hasNext(Newest.iterator).ret)
  /\ [][(/\ Calls("hasNext")
         /\ \/ DrainedBy(last)
            \/ last.op = "hasNext" /\ ~last.ok)
          => (~last'.ok /\ ~hasNext(streams'[Len(streams')].iterator).ret)
     ]_vars

\* a two-stage chain drained by anyMatch, which found no match
C9_Witness ==
  /\ phase = "done"
  /\ last.op = "anyMatch"
  /\ ~last.ok
  /\ last.pulls = 2
  /\ Stages(Newest.iterator) = 2
  /\ ~hasNext(Newest.iterator).ret

\* C10: hasNext() is a pure query: it changes no stage of the chain, invokes
\* no user function, and asked again gives the same answer.
C10_HasNextIsPure ==
  [][Calls("hasNext") =>
       /\ streams' = streams
       /\ seen' = seen
       /\ last'.calls = << >>
       /\ last'.ok = hasNext(streams'[Len(streams')].iterator).ret]_vars

\* hasNext() asked of a limit over a filter holding a buffered element
C10_Witness ==
  /\ last.op = "hasNext"
  /\ last.ok
  /\ Newest.iterator.kind = "Limit"
  /\ Newest.iterator.idx = 1
  /\ Newest.iterator.it.kind = "Filter"

\* the calls that return a new Stream
ChainOps == {"map", "flatMap", "filter", "tap", "limit"}

\* the source iterator at the bottom of the chain `it`
RECURSIVE Source(_)
Source(it) ==
  CASE it.kind \in {"Map", "Tap", "Limit", "Filter"} -> Source(it.it)
    [] it.kind = "FlatMap" -> Source(it.streamIt)
    [] OTHER -> it

\* C11: a chaining call moves the iterator into the returned Stream: the
\* Stream it was called on yields nothing afterwards, and the two Streams do
\* not both hold an iterator at the same position of the source with
\* elements left to pull.
C11_ChainingMovesIterator ==
  [][(last'.op \in ChainOps /\ phase' = "build" /\ Len(streams') = 2) =>
       /\ Elements(streams'[1].iterator) = << >>
       /\ hasNext(Source(streams'[1].iterator)).ret
            => Source(streams'[2].iterator) # Source(streams'[1].iterator)
     ]_vars

\* the calls that run a loop over the Stream's iterator
TerminalOps == {"sink", "forEach", "reduce", "allMatch", "anyMatch", "count",
                "countIf", "emplaceInto"}

\* the next() calls of the log made while hasNext() was false
Unguardeds(calls) == SelectSeq(calls, LAMBDA c : c.at = "Unguarded")

\* C12: while a chain is constructed and while a terminal operation runs,
\* no stage (outermost, upstream or flat-map inner iterator) has next()
\* called on it while its hasNext() is false; so these calls neither raise
\* IllegalState nor read past the end.
C12_LibraryPullsAreGuarded ==
  [][last'.op \in ChainOps \cup TerminalOps =>
       /\ Unguardeds(last'.calls) = << >>
       /\ ~last'.exc
       /\ ~last'.ub]_vars

\* sink() drove a limit over a flat-map whose first inner stream is empty
C12_Witness ==
  /\ phase = "done"
  /\ last.op = "sink"
  /\ last.pulls = 1
  /\ Newest.iterator.kind = "Limit"
  /\ Newest.iterator.it.kind = "FlatMap"
  /\ Newest.iterator.it.streamIt.kind = "Range"
  /\ Newest.iterator.it.streamIt.data = <<3, 2, 3>>
  /\ Newest.iterator.it.hasValue

\* number of Tap stages in the chain `it`
RECURSIVE TapStages(_)
TapStages(it) ==
  CASE it.kind = "Tap" -> 1 + TapStages(it.it)
    [] it.kind \in {"Map", "Limit", "Filter"} -> TapStages(it.it)
    [] it.kind = "FlatMap" -> TapStages(it.streamIt)
    [] OTHER -> 0

\* C13: a next() on a Tap stage, made while hasNext() is true, takes one
\* element from the upstream, invokes the tap function once, with that
\* element and after the upstream's own work, and returns that element. So
\* the values the tap function saw are the values the stage yielded, in
\* order, and sink() on source.tap(g) invokes g once per source element in
\* source order.
C13_TapSeesWhatItYields ==
  [][(Newest.iterator.kind = "Tap" /\ hasNext(Newest.iterator).ret) =>
       LET up == Newest.iterator.it
           g == Newest.iterator.lambda
       IN  /\ Calls("next") =>
                /\ last'.val = Head(Elements(up))
                /\ Elements(streams'[Len(streams')].iterator.it)
                     = Tail(Elements(up))
                /\ last'.calls
                     = Append(next(up, NoValue).calls,
                              Call("Tap", g, last'.val))
                /\ TapStages(up) = 0 => seen' = Append(seen, last'.val)
           /\ (Calls("emplaceInto") /\ TapStages(up) = 0) =>
                \E c \in Containers : last'.cont = c \o Tapped(last'.calls)
           /\ (Calls("sink") /\ up.kind = "Range") =>
                /\ Tapped(last'.calls) = Elements(up)
                /\ seen' = seen \o Elements(up)]_vars

\* two guarded next() calls on of({3, 1, 2}).tap(g): g saw 3, then 1
C13_Witness ==
  /\ last.op = "next"
  /\ last.val = 1
  /\ seen = <<3, 1>>
  /\ Newest.iterator.kind = "Tap"
  /\ Newest.iterator.it.kind = "Range"
  /\ Newest.iterator.it.data = <<3, 1, 2>>

\* the first n elements of xs, or all if fewer
Take(n, xs) == SubSeq(xs, 1, Min(n, Len(xs)))

\* C14: of(data).filter(p).map(f).limit(n).emplaceInto(c) leaves in c its
\* former contents followed by the first n (or all, if fewer) of f(x) for
\* the x of data satisfying p, in order.
C14_PipelineComposes ==
  phase = "done" =>
    LET lim == Newest.iterator
        data == Source(lim).data
        matches == SelectSeq(data, LAMBDA x : Test(lim.it.it.lambda, x))
        mapped == [i \in 1..Len(matches) |-> Apply(lim.it.lambda, matches[i])]
    IN  \E c \in Containers : last.cont = c \o Take(lim.size, mapped)

\* {1, 2, 3, 4, 5} with x > 2, x * 10, limit 2 appends {30, 40}
C14_Witness ==
  /\ phase = "done"
  /\ last.op = "emplaceInto"
  /\ last.cont = <<7, 30, 40>>
  /\ Newest.iterator.size = 2
  /\ Newest.iterator.it.it.lambda = "gt2"
  /\ Source(Newest.iterator).data = <<1, 2, 3, 4, 5>>

\* number of Filter stages in the chain `it`
RECURSIVE FilterStages(_)
FilterStages(it) ==
  CASE it.kind = "Filter" -> 1 + FilterStages(it.it)
    [] it.kind \in {"Map", "Limit", "Tap"} -> FilterStages(it.it)
    [] it.kind = "FlatMap" -> FilterStages(it.streamIt)
    [] OTHER -> 0

\* the filter `F` looks ahead over the upstream that had `U` left to yield:
\* it holds the first element of U satisfying its predicate, its upstream
\* is consumed up to and including that element, or to the end if there is
\* none, and `calls` applies the predicate once to each element consumed
FilterLooksAhead(F, U, calls) ==
  LET hits == {i \in 1..Len(U) : Test(F.lambda, U[i])}
      k == IF hits = {} THEN Len(U)
           ELSE CHOOSE i \in hits : \A j \in hits : i <= j
  IN  /\ hasNext(F).ret = (hits # {})
      /\ F.hasValue = (hits # {})
      /\ hits # {} => (F.hasInit /\ F.currentValue = U[k])
      /\ Elements(F.it) = SubSeq(U, k + 1, Len(U))
      /\ FilterStages(F.it) = 0
           => OwnArgs("Filter", calls) = SubSeq(U, 1, k)

\* C15: when filter(p) returns and after every next() made on a Filter
\* stage while its hasNext() is true, hasNext() is true iff the buffer holds
\* the first upstream element not yet returned that satisfies p; the
\* upstream is consumed up to and including that element, or to the end
\* when there is none; p was applied once to each element consumed; next()
\* returns the element buffered before the call.
C15_FilterLooksAhead ==
  [][/\ (last'.op = "filter" /\ phase' = "build")
          => FilterLooksAhead(streams'[Len(streams')].iterator,
                              Elements(Newest.iterator), last'.calls)
     /\ (/\ Calls("next")
         /\ Newest.iterator.kind = "Filter"
         /\ hasNext(Newest.iterator).ret)
          => /\ last'.val = Newest.iterator.currentValue
             /\ FilterLooksAhead(streams'[Len(streams')].iterator,
                                 Elements(Newest.iterator.it), last'.calls)
    ]_vars

\* of({2, 1, 2}).filter(odd): next() returned 1 and the second look-ahead
\* ran to the end of the source
C15_Witness ==
  /\ last.op = "next"
  /\ last.val = 1
  /\ OwnArgs("Filter", last.calls) = <<2>>
  /\ Newest.iterator.kind = "Filter"
  /\ ~Newest.iterator.hasValue
  /\ Newest.iterator.it.kind = "Range"
  /\ Newest.iterator.it.data = <<2, 1, 2>>

\* the flat-map `F` is ready exactly when it holds a live inner iterator
\* that has a next element, and when it is not ready its outer iterator is
\* exhausted
FlatMapReady(F) ==
  /\ F.hasValue = (F.hasInnerIt /\ hasNext(F.innerIt).ret)
  /\ hasNext(F).ret = F.hasValue
  /\ ~F.hasValue => ~hasNext(F.streamIt).ret

\* C16: when flatMap(f) returns and after every next() made on a FlatMap
\* stage while its hasNext() is true, hasNext() is true iff an inner
\* iterator is live and has a next element, and if it is false the outer
\* iterator is exhausted; a next() that leaves the live inner iterator with
\* elements pulls nothing from the outer iterator and does not call f.
C16_FlatMapReadiness ==
  [][/\ (last'.op = "flatMap" /\ phase' = "build")
          => FlatMapReady(streams'[Len(streams')].iterator)
     /\ (/\ Calls("next")
         /\ Newest.iterator.kind = "FlatMap"
         /\ hasNext(Newest.iterator).ret)
          => /\ FlatMapReady(streams'[Len(streams')].iterator)
             /\ last'.val = Head(Elements(Newest.iterator.innerIt))
             /\ Len(Elements(Newest.iterator.innerIt)) > 1
                  => /\ streams'[Len(streams')].iterator.streamIt
                          = Newest.iterator.streamIt
                     /\ OwnArgs("FlatMap", last'.calls) = << >>
                     /\ Elements(streams'[Len(streams')].iterator.innerIt)
                          = Tail(Elements(Newest.iterator.innerIt))
    ]_vars

\* of({2, 3, 1}).flatMap(rep): the first next() returned 2 from the inner
\* stream {2, 3}, which has 3 left, and the outer iterator stayed at 3
C16_Witness ==
  /\ last.op = "next"
  /\ last.val = 2
  /\ OwnArgs("FlatMap", last.calls) = << >>
  /\ Newest.iterator.kind = "FlatMap"
  /\ Newest.iterator.hasValue
  /\ Newest.iterator.innerIt.current = 2
  /\ Newest.iterator.streamIt.kind = "Range"
  /\ Newest.iterator.streamIt.data = <<2, 3, 1>>
  /\ Newest.iterator.streamIt.current = 2

\* the calls of the TypedStorage function `fn` in the log
StorageCalls(calls, fn) ==
  SelectSeq(calls, LAMBDA e : e.at = "Storage" /\ e.fn = fn)

\* number of slots holding a value in the objects of the chain `it`
RECURSIVE LiveSlots(_)
LiveSlots(it) ==
  CASE it.kind \in {"Map", "Tap", "Limit"} -> LiveSlots(it.it)
    [] it.kind = "Filter" ->
         (IF FilterSlotLive(it) THEN 1 ELSE 0) + LiveSlots(it.it)
    [] it.kind = "FlatMap" ->
         (IF FlatMapSlotLive(it) THEN 1 ELSE 0) + LiveSlots(it.streamIt)
    [] OTHER -> 0

\* in every object of the chain `it` the flag says whether the slot holds a
\* value
RECURSIVE FlagsTrackSlots(_)
FlagsTrackSlots(it) ==
  CASE it.kind \in {"Map", "Tap", "Limit"} -> FlagsTrackSlots(it.it)
    [] it.kind = "Filter" ->
         it.hasInit = FilterSlotLive(it) /\ FlagsTrackSlots(it.it)
    [] it.kind = "FlatMap" ->
         /\ it.hasInnerIt = FlatMapSlotLive(it)
         /\ FlagsTrackSlots(it.streamIt)
    [] OTHER -> TRUE

\* C17: over construction, copies, moves, next() calls made while hasNext()
\* is true, terminal operations and destruction: construct() is called only
\* on an empty slot, get() and destruct() only on a slot holding a value,
\* and each object's flag says whether its slot holds a value (so an object
\* constructs its slot at most once). What a chaining call constructs and
\* does not destroy again are the slots of the Stream it returns, a copy
\* holding a value iff the object copied does; pulling constructs a slot
\* only where one was empty and destroys none; destruction calls destruct()
\* once for each slot holding a value.
C17_StorageLifetime ==
  /\ [](\A k \in DOMAIN streams : FlagsTrackSlots(streams[k].iterator))
  /\ [][LET made == Len(StorageCalls(last'.calls, "construct"))
            gone == Len(StorageCalls(last'.calls, "destruct"))
            new == streams'[Len(streams')].iterator
        IN  /\ ~(Calls("next") /\ ~hasNext(Newest.iterator).ret) =>
                 \A i \in DOMAIN last'.calls :
                   last'.calls[i].at = "Storage" =>
                     last'.calls[i].arg
                       = (IF last'.calls[i].fn = "construct" THEN 0 ELSE 1)
            /\ (last'.op \in ChainOps /\ phase' = "build") =>
                 /\ made - gone = LiveSlots(new)
                 /\ last'.op \in {"map", "tap", "limit"}
                      => new.it = Newest.iterator
            /\ (\/ Calls("next") /\ hasNext(Newest.iterator).ret
                \/ last'.op \in TerminalOps) =>
                 /\ made = LiveSlots(new) - LiveSlots(Newest.iterator)
                 /\ gone = 0
            /\ last'.op = "exit" =>
                 /\ made = 0
                 /\ gone = LiveSlots(streams[1].iterator)
                           + (IF Len(streams) = 2
                              THEN LiveSlots(streams[2].iterator) ELSE 0)
       ]_vars

\* of(data).filter(odd).map(f) went out of scope: the filter of the first
\* Stream and its copy in the second were each destroyed with a value held
C17_Witness ==
  /\ phase = "gone"
  /\ last.op = "exit"
  /\ Len(StorageCalls(last.calls, "destruct")) = 2
  /\ Len(streams) = 2
  /\ streams[1].iterator.kind = "Filter"
  /\ streams[2].iterator.kind = "Map"
  /\ streams[2].iterator.it.hasInit

\* the Stream pulled from was returned by limit(n), n >= 0, and every
\* next() made on it was made while hasNext() was true
GuardedLimit ==
  /\ Len(streams) = 2
  /\ Newest.iterator.kind = "Limit"
  /\ Newest.iterator.size >= 0
  /\ misuse = 0

\* C18: on a Stream returned by limit(n), n >= 0, used with next() only
\* while hasNext() is true: the index never exceeds n, and the upstream has
\* yielded to the Limit stage exactly its first `index` elements; each
\* next(), by the program or by a terminal operation, adds one to the index
\* and takes one element from the upstream; once the index has reached n,
\* hasNext() is false whatever the upstream holds and leaves it untouched.
C18_LimitCounts ==
  /\ [](GuardedLimit =>
          LET L == Newest.iterator
              U0 == Elements(streams[1].iterator)
          IN  /\ L.idx >= 0 /\ L.idx <= L.size
              /\ L.idx <= Len(U0)
              /\ Elements(L.it) = SubSeq(U0, L.idx + 1, Len(U0))
              /\ L.idx >= L.size =>
                   /\ ~hasNext(L).ret
                   /\ hasNext(L).it = L)
  /\ [][(GuardedLimit /\ misuse' = 0) =>
          LET L == Newest.iterator
              M == streams'[Len(streams')].iterator
          IN  /\ Calls("next") =>
                   /\ M.idx = L.idx + 1
                   /\ last'.val = Head(Elements(L.it))
                   /\ Elements(M.it) = Tail(Elements(L.it))
              /\ last'.op \in TerminalOps => M.idx = L.idx + last'.pulls
              /\ Calls("hasNext") => M = L]_vars

\* limit(2) over three elements, drained: the index is 2, the upstream has
\* an element left and hasNext() is false
C18_Witness ==
  /\ GuardedLimit
  /\ phase = "done"
  /\ last.op = "count"
  /\ Newest.iterator.size = 2
  /\ Newest.iterator.idx = 2
  /\ hasNext(Newest.iterator.it).ret
  /\ ~hasNext(Newest.iterator).ret

\* the iterator a Filter or FlatMap iterator pulls from
Up(it) == IF it.kind = "FlatMap" THEN it.streamIt ELSE it.it

\* C19: over finite ranges, with finite inner streams, the refill loop run
\* by the constructor of a Filter or FlatMap iterator and the loop of every
\* terminal operation terminate: the constructor returns, the terminal
\* operation returns. Every iteration that finds the loop condition true
\* takes exactly one element from what the iterator looped over would
\* still yield, and one that finds it false leaves the loop.
C19_LoopsTerminate ==
  /\ (phase = "refill") ~> (phase = "build")
  /\ (phase = "drain") ~> (phase = "done")
  /\ [][LET old == Newest.iterator
            new == streams'[Len(streams')].iterator
        IN  /\ (phase = "refill" /\ phase' \in {"refill", "build"}) =>
                 IF hasNext(Up(old)).ret
                 THEN Elements(Up(new)) = Tail(Elements(Up(old)))
                 ELSE phase' = "build" /\ new = old
            /\ (phase = "drain" /\ phase' \in {"drain", "done"}) =>
                 IF hasNext(old).ret
                 THEN Elements(new) = Tail(Elements(old))
                 ELSE phase' = "done" /\ new = old]_vars

\* sink() over of({2, 1, 3}).filter(odd) returned after two iterations, the
\* constructor of the filter after two
C19_Witness ==
  /\ phase = "done"
  /\ last.op = "sink"
  /\ last.pulls = 2
  /\ Newest.iterator.kind = "Filter"
  /\ ~hasNext(Newest.iterator).ret
  /\ Newest.iterator.it.kind = "Range"
  /\ Newest.iterator.it.data = <<2, 1, 3>>

\* the elements of `xs` up to and including the k-th that satisfies `p`;
\* all of `xs` if fewer than k do
UpToMatch(k, p, xs) ==
  LET hits == {i \in 1..Len(xs) : Test(p, xs[i])}
      kth == {i \in hits : Cardinality({j \in hits : j <= i}) = k}
  IN  IF kth = {} THEN xs ELSE SubSeq(xs, 1, CHOOSE i \in kth : TRUE)

\* the filter stage of the chain of(data).tap(g).filter(p).limit(n)
TapChainFilterStage ==
  IF Newest.iterator.kind = "Limit" THEN Newest.iterator.it
  ELSE Newest.iterator

\* C20: in of(data).tap(g).filter(p).limit(n) the look-ahead of the filter
\* shows in the calls of g. When filter(p) has returned, and until a
\* terminal operation pulls, g was invoked on the elements of data up to and
\* including the first that satisfies p. The iteration of a terminal
\* operation that receives the k-th match invokes g on the elements up to
\* and including the (k+1)-th match before the operation's own function
\* sees the k-th match. When the operation has drained the chain, g was
\* invoked on the elements up to and including the (n+1)-th match: on all of
\* data if fewer than n+1 elements satisfy p.
C20_FilterPrefetchSeen ==
  /\ [](last.op \in {"filter", "limit"} =>
          seen = UpToMatch(1, TapChainFilterStage.lambda,
                           Source(Newest.iterator).data))
  /\ []((phase = "done" /\ ~hasNext(Newest.iterator).ret) =>
          seen = UpToMatch(Newest.iterator.size + 1,
                           TapChainFilterStage.lambda,
                           Source(Newest.iterator).data))
  /\ [][(phase = "drain" /\ last'.pulls = last.pulls + 1) =>
          LET k == last'.pulls
              p == TapChainFilterStage.lambda
              data == Source(Newest.iterator).data
              match == UpToMatch(k, p, data)
              new == SubSeq(last'.calls, Len(last.calls) + 1,
                            Len(last'.calls))
              taps == {i \in 1..Len(new) : new[i].at = "Tap"}
              own == {i \in 1..Len(new) : new[i].at \in TerminalOps}
          IN  /\ seen' = UpToMatch(k + 1, p, data)
              /\ Tapped(new) = SubSeq(data, Len(match) + 1, Len(seen'))
              /\ \A i \in own :
                    /\ new[i].arg = match[Len(match)]
                    /\ \A j \in taps : j < i]_vars

\* of({2, 1, 2, 3}).tap(g).filter(odd).limit(1).forEach(f): f received 1,
\* the only element delivered, and g was invoked on 2, 1, 2 and 3
C20_Witness ==
  /\ phase = "done"
  /\ last.op = "forEach"
  /\ last.pulls = 1
  /\ Newest.iterator.kind = "Limit"
  /\ Newest.iterator.size = 1
  /\ TapChainFilterStage.lambda = "odd"
  /\ Source(Newest.iterator).data = <<2, 1, 2, 3>>
  /\ seen = <<2, 1, 2, 3>>
  /\ OwnArgs("forEach", last.calls) = <<1>>

====
